---- MODULE Spec2Model ----
(***************************************************************************)
(* A model of fdb: an axum HTTP service over a deadpool/diesel SQLite pool *)
(* (src/src/main.rs, src/src/models.rs).  The process (main) loads the     *)
(* environment, builds the pool, runs the embedded migrations, binds the   *)
(* listener and serves three handlers: view_friend, view_all_friends and   *)
(* create_friend.  Every handler is modelled at its await points: the pool *)
(* acquisition, the store operation inside conn.interact, and the return   *)
(* (which drops the pooled connection and produces the response).          *)
(***************************************************************************)
EXTENDS Integers, Sequences, FiniteSets, TLC

\* ---------------------------------------------------------------- bounds
\* Number of requests the server accepts over the whole behaviour.
MaxReq == 3
\* Number of connections the pool can lease at the same time.  main.rs:115 builds the
\* pool without a max_size, so the capacity is the pool's default, a number above one.
PoolSize == 2
\* Number of embedded migrations.
NumMigrations == 3
\* Number of times the process is started again on the same store.
MaxRestarts == 2
\* Number of rows the friends table can hold when the process is started.
MaxRows == 1

\* ------------------------------------------------------------ value sets
Names == {"Ann", "Bob"}
Emails == {"a@x.com"}

\* models.rs: NewFriend { name, email } (also main.rs CreateFriend, same fields)
NewFriend == [name : Names, email : Emails]

\* Option<T>: None is the empty sequence, Some(x) the one-element sequence.
None == << >>
Some(x) == << x >>
IsSome(o) == Len(o) = 1
Unwrap(o) == o[1]

Requests == 1 .. MaxReq
Handles == 1 .. PoolSize
\* Path ids a client asks for: the ids of the rows a table can hold, and one of no row.
PathIds == 1 .. (MaxRows + 1)
\* main.rs:81  what res.id() can read as when res holds no Friend: an id no row has, or
\* a row's.
UninitIds == {0, 1}
\* What the body of a POST decodes to under an extractor of main.rs:66-67, Json<NewFriend>
\* or Form<CreateFriend>: the value, or nothing when the body does not decode that way.
Payloads == {None} \cup {Some(n) : n \in NewFriend}
\* main.rs:66-67  the statuses with which a Json or Form extractor rejects a request
\* (bad syntax, unsupported media type, undecodable data).
Rejections == {400, 415, 422}

\* main.rs:20  the embedded migrations, in the order of their versions
MIGRATIONS == [i \in 1 .. NumMigrations |-> i]

\* main.rs:169  StatusCode::INTERNAL_SERVER_ERROR
INTERNAL_SERVER_ERROR == 500
\* main.rs:39, 56  Ok(Json(res)) is answered 200
OK == 200
\* main.rs:81  Redirect::to is answered 303 See Other
SEE_OTHER == 303

VARIABLES
    mainPc,     \* where main() is: start, env, pool, migrate, migrated, bound, serving, aborted
    envSet,     \* whether DATABASE_URL is set in the environment of this run
    steps,      \* the startup steps main() has completed in this run, in order
    failed,     \* what made the startup of this run fail ("none": nothing did)
    mainConn,   \* the pooled connection the migration block holds (Option<handle>)
    leased,     \* handles of the pool that are leased out
    applied,    \* the store's migration history: versions applied, in order
    runLog,     \* versions applied by the migration run of this process run
    store,      \* the friends table: rows in insertion order
    req,        \* the request tasks
    restarts    \* how often the process was started again

vars == << mainPc, envSet, steps, failed, mainConn, leased, applied, runLog, store, req,
           restarts >>

\* ------------------------------------------------------- request records
\* axum::http::Response as the client sees it.  status 0: no response was sent.
NoResponse == [status |-> 0, body |-> << >>, loc |-> -1, msg |-> ""]

\* A request task that has not been accepted yet.  kind and id are the route and the
\* path id; json and form are what the body decodes to under each extractor; conn, ok,
\* val and err are the handler's locals (the pooled connection and the result of the
\* store operation); resp is the response.  The rest is history: fault, whether a pool
\* or store fault hit the request; at, how many rows the table held when the request
\* was accepted; seen, how many it held when the request's read ran; prior, the creates
\* that had been answered with their redirect when the request's read ran.
IdleReq == [pc |-> "idle", kind |-> "none", id |-> 0, json |-> None, form |-> None,
            conn |-> None, ok |-> FALSE, val |-> << >>, err |-> "",
            fault |-> FALSE, at |-> -1, seen |-> -1, prior |-> {}, resp |-> NoResponse]

\* models.rs:7-11  struct Friend { id, name, email }
Friend(i, n, e) == [id |-> i, name |-> n, email |-> e]

\* models.rs:13-17  Friend::id
id(friend) == friend.id

\* main.rs:165-170  internal_error: (StatusCode::INTERNAL_SERVER_ERROR, err.to_string())
internal_error(err) == [status |-> INTERNAL_SERVER_ERROR, body |-> << >>, loc |-> -1, msg |-> err]

\* main.rs:39, 56  Ok(Json(res)): the value serialized as the body of a 200
JsonResponse(val) == [status |-> OK, body |-> val, loc |-> -1, msg |-> ""]

\* main.rs:81  Redirect::to(format!("/friends/{}", id))
RedirectTo(i) == [status |-> SEE_OTHER, body |-> << >>, loc |-> i, msg |-> ""]

\* main.rs:66-67  the response of an extractor that rejects the request
Rejection(status) == [status |-> status, body |-> << >>, loc |-> -1, msg |-> "rejection"]

\* ----------------------------------------------------------------- store
\* models.rs:7-11  the tables the process can find in the store it is started on: up to
\* MaxRows rows of Friend, under the ids 1, 2, ... of their primary key.
Tables ==
    UNION { { [k \in 1 .. n |-> Friend(k, names[k], e)] : names \in [1 .. n -> Names],
                                                           e \in Emails }
            : n \in 0 .. MaxRows }

\* main.rs:30-33  friends.find(id).select(Friend::as_select()).first(conn)
FindFirst(table, i) ==
    LET hits == SelectSeq(table, LAMBDA row : row.id = i)
    IN  IF hits = << >> THEN None ELSE Some(hits[1])

\* A variant of LoadAll that loses the newest row.
LoadAllButLast(table) == IF table = << >> THEN table ELSE SubSeq(table, 1, Len(table) - 1)

\* main.rs:48-50  friends::table.select(Friend::as_select()).load(conn)
LoadAll(table) == table

\* main.rs:83-90  add_friend_to_db builds the future of conn.interact(insert ..) and
\* returns it: nothing in the function awaits it, so the closure that holds the insert
\* is never run.  The value returned is that future, not a Friend.
add_friend_to_db(conn, json) == [future |-> "interact", values |-> json, polled |-> FALSE]

\* A variant of Pending that ignores the history and runs every embedded migration.
PendingAll(history) == MIGRATIONS

\* main.rs:121  run_pending_migrations: the embedded versions the history lacks, in order
Pending(history) ==
    SelectSeq(MIGRATIONS, LAMBDA v : \A k \in DOMAIN history : history[k] # v)

\* ------------------------------------------------------------------ Init
Init ==
    /\ mainPc = "start"
    /\ envSet \in BOOLEAN
    /\ steps = << >>
    /\ failed = "none"
    /\ mainConn = None
    /\ leased = {}
    /\ applied = << >>
    /\ runLog = << >>
    /\ store \in Tables
    /\ req = [r \in Requests |-> IdleReq]
    /\ restarts = 0

\* ------------------------------------------------------------------ main
\* A panic in main(): the unwrap unwinds out of the tokio runtime, every local is
\* dropped and the process ends.
Abort(step) ==
    /\ mainPc' = "aborted"
    /\ failed' = step
    /\ mainConn' = None
    /\ leased' = {}

\* main.rs:109-111  dotenvy::dotenv() (result ignored), env::var("DATABASE_URL").unwrap()
LoadEnv ==
    /\ mainPc = "start"
    /\ IF envSet
       THEN /\ mainPc' = "env"
            /\ steps' = Append(steps, "env")
            /\ UNCHANGED << failed, mainConn, leased >>
       ELSE /\ Abort("env")
            /\ UNCHANGED steps
    /\ UNCHANGED << envSet, applied, runLog, store, req, restarts >>

\* main.rs:112-115  Manager::new, Pool::builder(manager).build().unwrap()
BuildPool ==
    /\ mainPc = "env"
    /\ \E fault \in BOOLEAN :
          IF fault
          THEN /\ Abort("pool")
               /\ UNCHANGED steps
          ELSE /\ mainPc' = "pool"
               /\ steps' = Append(steps, "pool")
               /\ UNCHANGED << failed, mainConn, leased >>
    /\ UNCHANGED << envSet, applied, runLog, store, req, restarts >>

\* main.rs:118  let conn = pool.get().await.unwrap()
MigrationAcquire ==
    /\ mainPc = "pool"
    /\ \/ /\ \E h \in Handles \ leased :
                /\ mainConn' = Some(h)
                /\ leased' = leased \cup {h}
          /\ mainPc' = "migrate"
          /\ UNCHANGED failed
       \/ Abort("acquire")
    /\ UNCHANGED << envSet, steps, applied, runLog, store, req, restarts >>

\* A variant of RunPendingMigrations that logs a failed migration and carries on.
RunPendingMigrationsLenient ==
    /\ mainPc = "migrate"
    /\ LET todo == Pending(applied)
       IN  \E k \in 0 .. Len(todo) :
              /\ applied' = applied \o SubSeq(todo, 1, k)
              /\ runLog' = runLog \o SubSeq(todo, 1, k)
              /\ failed' = IF k = Len(todo) THEN failed ELSE "migration"
    /\ mainPc' = "migrated"
    /\ mainConn' = None
    /\ leased' = leased \ {Unwrap(mainConn)}
    /\ steps' = Append(steps, "migrate")
    /\ UNCHANGED << envSet, store, req, restarts >>

\* main.rs:120-125  conn.interact(run_pending_migrations).await.unwrap().unwrap(), then
\* the end of the block drops conn.  The run first sets up and reads the history, then
\* applies the pending versions in order, each recorded in the history.  A store fault
\* while it reads the history (whether or not anything is pending) and the first
\* migration that fails both end the run with an error, which the unwraps turn into a
\* panic of main.
RunPendingMigrations ==
    /\ mainPc = "migrate"
    /\ LET todo == Pending(applied)
       IN  \/ /\ applied' = applied \o todo
              /\ runLog' = runLog \o todo
              /\ mainPc' = "migrated"
              /\ mainConn' = None
              /\ leased' = leased \ {Unwrap(mainConn)}
              /\ steps' = Append(steps, "migrate")
              /\ UNCHANGED failed
           \/ /\ Abort("history")
              /\ UNCHANGED << applied, runLog, steps >>
           \/ \E k \in 0 .. (Len(todo) - 1) :
                 /\ applied' = applied \o SubSeq(todo, 1, k)
                 /\ runLog' = runLog \o SubSeq(todo, 1, k)
                 /\ Abort("migration")
                 /\ UNCHANGED steps
    /\ UNCHANGED << envSet, store, req, restarts >>

\* A variant of Bind placed before the migration block.
BindBeforeMigrations ==
    /\ mainPc = "pool"
    /\ mainPc' = "bound"
    /\ steps' = Append(steps, "bind")
    /\ UNCHANGED << envSet, failed, mainConn, leased, applied, runLog, store,
                    req, restarts >>

\* main.rs:160  TcpListener::bind(addr).await.unwrap()
Bind ==
    /\ mainPc = "migrated"
    /\ \E fault \in BOOLEAN :
          IF fault
          THEN /\ Abort("bind")
               /\ UNCHANGED steps
          ELSE /\ mainPc' = "bound"
               /\ steps' = Append(steps, "bind")
               /\ UNCHANGED << failed, mainConn, leased >>
    /\ UNCHANGED << envSet, applied, runLog, store, req, restarts >>

\* main.rs:162  axum::serve(listener, app).await
Serve ==
    /\ mainPc = "bound"
    /\ mainPc' = "serving"
    /\ steps' = Append(steps, "accept")
    /\ UNCHANGED << envSet, failed, mainConn, leased, applied, runLog, store, req, restarts >>

\* The process ends (a panic of main, or a kill) and main() is started again on the same
\* store: the pool and every task of the old process are gone, the store is kept.
InFlight(r) == req[r].pc \in {"acquire", "interact", "respond"}

Restart ==
    /\ mainPc # "start"
    /\ restarts < MaxRestarts
    /\ restarts' = restarts + 1
    /\ mainPc' = "start"
    /\ envSet' \in BOOLEAN
    /\ steps' = << >>
    /\ failed' = "none"
    /\ mainConn' = None
    /\ leased' = {}
    /\ runLog' = << >>
    /\ req' = [r \in Requests |->
                 IF InFlight(r)
                 THEN [req[r] EXCEPT !.pc = "killed", !.conn = None]
                 ELSE req[r]]
    /\ UNCHANGED << applied, store >>

\* A handler returns: the response goes out and the handler's locals are dropped.
Returned(request, response) ==
    [request EXCEPT !.pc = "done", !.conn = None, !.ok = FALSE, !.val = << >>,
                    !.err = "", !.resp = response]

\* A panic unwinds the task: the same drops, and no response.
Panicked(request) ==
    [request EXCEPT !.pc = "crashed", !.conn = None, !.ok = FALSE, !.val = << >>,
                    !.err = "", !.fault = TRUE]

\* ---------------------------------------------------------------- router
\* The creates that have been answered with their redirect.
Redirected == {q \in Requests : req[q].kind = "new" /\ req[q].pc = "done"
                                                     /\ req[q].resp.status = SEE_OTHER}

\* A variant of Accept that starts create_friend whatever the body decoded to.
AcceptUndecoded(r) ==
    /\ mainPc = "serving"
    /\ req[r].pc = "idle"
    /\ \A q \in Requests : q < r => req[q].pc # "idle"
    /\ LET fresh == [IdleReq EXCEPT !.at = Len(store)]
       IN  \/ \E i \in PathIds :
                 req' = [req EXCEPT ![r] = [fresh EXCEPT !.pc = "acquire", !.kind = "get",
                                                         !.id = i]]
           \/ req' = [req EXCEPT ![r] = [fresh EXCEPT !.pc = "acquire", !.kind = "all"]]
           \/ \E j \in Payloads, f \in Payloads :
                 req' = [req EXCEPT ![r] = [fresh EXCEPT !.pc = "acquire", !.kind = "new",
                                                         !.json = j, !.form = f]]
    /\ UNCHANGED << mainPc, envSet, steps, failed, mainConn, leased, applied, runLog, store,
                    restarts >>

\* main.rs:128-131, 162  the server accepts a request and the router runs the extractors
\* of its route's handler, then the handler up to its first await, pool.get().
\* main.rs:24  view_friend takes the path id; main.rs:66-67  create_friend takes a
\* Json<NewFriend> and a Form<CreateFriend>, neither optional: it is entered only with
\* both decoded, and a body that does not decode under one of them is answered by that
\* extractor's rejection without the handler being entered.
Accept(r) ==
    /\ mainPc = "serving"
    /\ req[r].pc = "idle"
    /\ \A q \in Requests : q < r => req[q].pc # "idle"
    /\ LET fresh == [IdleReq EXCEPT !.at = Len(store)]
       IN  \/ \E i \in PathIds :
                 req' = [req EXCEPT ![r] = [fresh EXCEPT !.pc = "acquire", !.kind = "get",
                                                         !.id = i]]
           \/ req' = [req EXCEPT ![r] = [fresh EXCEPT !.pc = "acquire", !.kind = "all"]]
           \/ \E j \in Payloads, f \in Payloads :
                 LET posted == [fresh EXCEPT !.kind = "new", !.json = j, !.form = f]
                 IN  IF IsSome(j) /\ IsSome(f)
                     THEN req' = [req EXCEPT ![r] = [posted EXCEPT !.pc = "acquire"]]
                     ELSE \E status \in Rejections :
                             req' = [req EXCEPT ![r] = Returned(posted, Rejection(status))]
    /\ UNCHANGED << mainPc, envSet, steps, failed, mainConn, leased, applied, runLog, store,
                    restarts >>

\* ----------------------------------------------------------- view_friend
\* main.rs:26  let conn = pool.get().await.unwrap(): a pool error panics the task,
\* which ends without a response.
view_friend_acquire(r) ==
    /\ mainPc = "serving"
    /\ req[r].pc = "acquire"
    /\ req[r].kind = "get"
    /\ \/ \E h \in Handles \ leased :
             /\ leased' = leased \cup {h}
             /\ req' = [req EXCEPT ![r].pc = "interact", ![r].conn = Some(h)]
       \/ /\ req' = [req EXCEPT ![r] = Panicked(req[r])]
          /\ UNCHANGED leased
    /\ UNCHANGED << mainPc, envSet, steps, failed, mainConn, applied, runLog, store, restarts >>

\* main.rs:28-37  the closure unwraps the result of first(): a row is returned, and
\* zero rows (diesel's NotFound) or a store fault panic the closure, which interact
\* reports as InteractError::Panic; map_err(internal_error)? turns that into the error
\* the handler returns.
view_friend_interact(r) ==
    /\ mainPc = "serving"
    /\ req[r].pc = "interact"
    /\ req[r].kind = "get"
    /\ LET found == FindFirst(store, req[r].id)
       IN  \/ /\ IsSome(found)
              /\ req' = [req EXCEPT ![r].pc = "respond", ![r].ok = TRUE, ![r].val = found,
                                    ![r].seen = Len(store), ![r].prior = Redirected]
           \/ /\ ~IsSome(found)
              /\ req' = [req EXCEPT ![r].pc = "respond", ![r].ok = FALSE, ![r].err = "Panic",
                                    ![r].seen = Len(store), ![r].prior = Redirected]
           \/ /\ req' = [req EXCEPT ![r].pc = "respond", ![r].ok = FALSE, ![r].err = "Panic",
                                    ![r].fault = TRUE]
    /\ UNCHANGED << mainPc, envSet, steps, failed, mainConn, leased, applied, runLog, store, restarts >>

\* A variant of view_friend_respond that keeps the connection on the error path.
view_friend_respond_leak(r) ==
    /\ mainPc = "serving"
    /\ req[r].pc = "respond"
    /\ req[r].kind = "get"
    /\ leased' = IF req[r].ok THEN leased \ {Unwrap(req[r].conn)} ELSE leased
    /\ req' = [req EXCEPT ![r] = Returned(req[r], IF req[r].ok THEN JsonResponse(req[r].val)
                                                   ELSE internal_error(req[r].err))]
    /\ UNCHANGED << mainPc, envSet, steps, failed, mainConn, applied, runLog, store,
                    restarts >>

\* main.rs:37-40  the handler returns Err(internal_error(..)) or Ok(Json(res)); conn is
\* dropped on the way out, which gives the handle back to the pool.
view_friend_respond(r) ==
    /\ mainPc = "serving"
    /\ req[r].pc = "respond"
    /\ req[r].kind = "get"
    /\ leased' = leased \ {Unwrap(req[r].conn)}
    /\ req' = [req EXCEPT ![r] = Returned(req[r], IF req[r].ok THEN JsonResponse(req[r].val)
                                                   ELSE internal_error(req[r].err))]
    /\ UNCHANGED << mainPc, envSet, steps, failed, mainConn, applied, runLog, store, restarts >>

\* ------------------------------------------------------ view_all_friends
\* A variant of view_all_friends_acquire whose pool hands out a handle that is leased.
view_all_friends_acquire_shared(r) ==
    /\ mainPc = "serving"
    /\ req[r].pc = "acquire"
    /\ req[r].kind = "all"
    /\ \E h \in Handles :
          /\ leased' = leased \cup {h}
          /\ req' = [req EXCEPT ![r].pc = "interact", ![r].conn = Some(h)]
    /\ UNCHANGED << mainPc, envSet, steps, failed, mainConn, applied, runLog, store,
                    restarts >>

\* main.rs:45  let conn = pool.get().await.unwrap()
view_all_friends_acquire(r) ==
    /\ mainPc = "serving"
    /\ req[r].pc = "acquire"
    /\ req[r].kind = "all"
    /\ \/ \E h \in Handles \ leased :
             /\ leased' = leased \cup {h}
             /\ req' = [req EXCEPT ![r].pc = "interact", ![r].conn = Some(h)]
       \/ /\ req' = [req EXCEPT ![r] = Panicked(req[r])]
          /\ UNCHANGED leased
    /\ UNCHANGED << mainPc, envSet, steps, failed, mainConn, applied, runLog, store, restarts >>

\* A variant of view_all_friends_interact that runs the load again after a store fault.
view_all_friends_interact_retry(r) ==
    /\ mainPc = "serving"
    /\ req[r].pc = "interact"
    /\ req[r].kind = "all"
    /\ \/ req' = [req EXCEPT ![r].pc = "respond", ![r].ok = TRUE,
                             ![r].val = LoadAll(store), ![r].seen = Len(store),
                             ![r].prior = Redirected]
       \/ req' = [req EXCEPT ![r].err = "store fault", ![r].fault = TRUE]
    /\ UNCHANGED << mainPc, envSet, steps, failed, mainConn, leased, applied, runLog, store, restarts >>

\* main.rs:46-54  the closure returns the result of load(): the rows, or the store's
\* error, which the second map_err(internal_error)? returns.
view_all_friends_interact(r) ==
    /\ mainPc = "serving"
    /\ req[r].pc = "interact"
    /\ req[r].kind = "all"
    /\ \/ req' = [req EXCEPT ![r].pc = "respond", ![r].ok = TRUE,
                             ![r].val = LoadAll(store), ![r].seen = Len(store),
                             ![r].prior = Redirected]
       \/ req' = [req EXCEPT ![r].pc = "respond", ![r].ok = FALSE,
                             ![r].err = "store fault", ![r].fault = TRUE]
    /\ UNCHANGED << mainPc, envSet, steps, failed, mainConn, leased, applied, runLog, store, restarts >>

\* main.rs:53-57  Err(internal_error(..)) or Ok(Json(res)); conn is dropped.
view_all_friends_respond(r) ==
    /\ mainPc = "serving"
    /\ req[r].pc = "respond"
    /\ req[r].kind = "all"
    /\ leased' = leased \ {Unwrap(req[r].conn)}
    /\ req' = [req EXCEPT ![r] = Returned(req[r], IF req[r].ok THEN JsonResponse(req[r].val)
                                                   ELSE internal_error(req[r].err))]
    /\ UNCHANGED << mainPc, envSet, steps, failed, mainConn, applied, runLog, store, restarts >>

\* --------------------------------------------------------- create_friend
\* main.rs:64-82  let conn = pool.get().await.map_err(internal_error)?; a pool error is
\* returned as the response.  The handler is entered with a decoded JSON payload, so of
\* the two branches of lines 72-79 the first is the one taken (the form branch, which
\* builds a NewFriend and discards it, is its else).  res = add_friend_to_db(conn,
\* json).await takes conn with it and awaits nothing that runs the insert: res is the
\* future add_friend_to_db returned, conn is dropped when that call ends, and line 81
\* formats res.id() of a value that holds no Friend, so the id in the redirect is
\* indeterminate.  Nothing suspends between pool.get() and the return.
create_friend(r) ==
    /\ mainPc = "serving"
    /\ req[r].pc = "acquire"
    /\ req[r].kind = "new"
    /\ \/ req' = [req EXCEPT ![r] = Returned([req[r] EXCEPT !.fault = TRUE],
                                             internal_error("pool error"))]
       \/ \E h \in Handles \ leased :
             LET res == add_friend_to_db(h, req[r].json)
             IN  /\ ~res.polled
                 /\ \E i \in UninitIds :
                       req' = [req EXCEPT ![r] = Returned(req[r], RedirectTo(i))]
    /\ UNCHANGED << mainPc, envSet, steps, failed, mainConn, leased, applied, runLog, store,
                    restarts >>

\* ------------------------------------------------------------------ Spec
Next ==
    \/ LoadEnv
    \/ BuildPool
    \/ MigrationAcquire
    \/ RunPendingMigrations
    \/ Bind
    \/ Serve
    \/ \E r \in Requests : Accept(r)
    \/ \E r \in Requests : view_friend_acquire(r)
    \/ \E r \in Requests : view_friend_interact(r)
    \/ \E r \in Requests : view_friend_respond(r)
    \/ \E r \in Requests : view_all_friends_acquire(r)
    \/ \E r \in Requests : view_all_friends_interact(r)
    \/ \E r \in Requests : view_all_friends_respond(r)
    \/ \E r \in Requests : create_friend(r)

\* One run of the process, from main() to the requests it serves.
Spec == Init /\ [][Next]_vars

\* The process started again and again on the same store: startup and migrations only
\* (no handler reads or writes the migration history).
NextStartup ==
    \/ LoadEnv
    \/ BuildPool
    \/ MigrationAcquire
    \/ RunPendingMigrations
    \/ Bind
    \/ Serve
    \/ Restart

SpecRestart == Init /\ [][NextStartup]_vars

\* The steps of the task serving request r.
RequestStep(r) ==
    \/ view_friend_acquire(r) \/ view_friend_interact(r) \/ view_friend_respond(r)
    \/ view_all_friends_acquire(r) \/ view_all_friends_interact(r)
    \/ view_all_friends_respond(r)
    \/ create_friend(r)

\* main.rs:92, 162  #[tokio::main] and axum::serve: every request runs as a task of the
\* runtime, which keeps polling a task that can make a step; store operations terminate.
FairSpec == Init /\ [][Next]_vars /\ \A r \in Requests : WF_vars(RequestStep(r))

\* =================================================================== C1
\* The rows request r's step has added to the table since r was accepted.
AddedSince(r) == {k \in DOMAIN store : k > req[r].at}

\* Row k holds the name and email of payload p.
Holds(k, p) == store[k].name = p.name /\ store[k].email = p.email

\* C1 (round trip): a GET /friends/{i} that is hit by no fault and whose lookup runs
\* after a create carrying (name, email) was answered with the redirect to /friends/i
\* is answered 200 with the Friend (i, name, email).
RoundTrip ==
    \A q \in Requests : \A r \in req[q].prior :
        ( /\ req[q].kind = "get"
          /\ req[q].pc = "done"
          /\ ~req[q].fault
          /\ req[q].id = req[r].resp.loc )
        => req[q].resp = JsonResponse(<< Friend(req[q].id, Unwrap(req[r].json).name,
                                                 Unwrap(req[r].json).email) >>)

\* =================================================================== C3
\* The lookup of request r ran and matched no row.
ZeroRows(r) ==
    /\ req[r].seen >= 0
    /\ \A k \in 1 .. req[r].seen : id(store[k]) # req[r].id

\* C3 (not-found distinction): a GET /friends/{id} whose lookup matches no row, and
\* that is hit by no fault, is answered with a 4xx status, not with the 500 of an
\* internal fault.
NotFoundDistinct ==
    \A r \in Requests :
        (req[r].kind = "get" /\ req[r].pc = "done" /\ ~req[r].fault /\ ZeroRows(r))
        => (req[r].resp.status \in 400 .. 499 /\ req[r].resp.status # INTERNAL_SERVER_ERROR)

\* =================================================================== C4
\* C4 (content negotiation): a POST /friends/new that carries (name, email) in exactly
\* one encoding, JSON or form, and is hit by no fault, has, when it is answered, added
\* a row with that name and email to the table.
ContentNegotiation ==
    \A r \in Requests :
        ( /\ req[r].kind = "new"
          /\ req[r].pc = "done"
          /\ ~req[r].fault
          /\ IsSome(req[r].json) # IsSome(req[r].form) )
        => LET sent == IF IsSome(req[r].json) THEN Unwrap(req[r].json)
                       ELSE Unwrap(req[r].form)
           IN  \E k \in AddedSince(r) : Holds(k, sent)

\* =================================================================== C5
\* C5 (create redirect): a POST /friends/new that is answered with a redirect has added
\* a row of its own to the table, and the redirect names the id of that row.
CreateRedirect ==
    \A r \in Requests :
        ( /\ req[r].kind = "new"
          /\ req[r].pc = "done"
          /\ req[r].resp.status = SEE_OTHER )
        => \E k \in AddedSince(r) :
              /\ req[r].resp.loc = id(store[k])
              /\ Holds(k, Unwrap(req[r].json)) \/ Holds(k, Unwrap(req[r].form))

\* =================================================================== C6
\* C6 (list-all): a GET /friends/all that is hit by no fault is answered 200 with exactly
\* the rows the table held when its read ran; on an empty table that is the empty list.
ListAll ==
    \A r \in Requests :
        (req[r].kind = "all" /\ req[r].pc = "done" /\ ~req[r].fault)
        => /\ req[r].seen >= 0
           /\ req[r].resp = JsonResponse(SubSeq(store, 1, req[r].seen))

\* C6 witness: a list-all was answered from a table that held a row.
ListAllWitness ==
    \E r \in Requests :
        /\ req[r].kind = "all"
        /\ req[r].pc = "done"
        /\ ~req[r].fault
        /\ req[r].seen >= 1
        /\ req[r].resp.status = OK

\* C6: a list-all was answered from an empty table.
ListAllEmpty ==
    \E r \in Requests :
        /\ req[r].kind = "all"
        /\ req[r].pc = "done"
        /\ ~req[r].fault
        /\ req[r].seen = 0
        /\ req[r].resp = JsonResponse(<< >>)

\* =================================================================== C7
StartupSequence == << "env", "pool", "migrate", "bind", "accept" >>

\* C7 (startup ordering): the startup steps complete in the order load environment,
\* open pool, run migrations, bind, accept; and a request is only ever in a handler
\* when all five are done and every embedded migration is applied.
StartupOrdering ==
    /\ Len(steps) <= Len(StartupSequence)
    /\ steps = SubSeq(StartupSequence, 1, Len(steps))
    /\ \A r \in Requests :
          req[r].pc # "idle" => (steps = StartupSequence /\ applied = MIGRATIONS)

\* C7 witness: a request is in a handler.
StartupOrderingWitness ==
    \E r \in Requests : req[r].pc = "interact" /\ steps = StartupSequence

\* =================================================================== C8
StepsDone == {steps[k] : k \in DOMAIN steps}

\* C8 (startup-fatal): once a startup step has failed (or while the connection-target
\* variable is missing) the process is down or on its way down: it has ended without
\* binding the socket, accepts nothing, serves no request, and takes no further step.
StartupFatal ==
    /\ failed # "none" =>
          /\ mainPc = "aborted"
          /\ "bind" \notin StepsDone
          /\ "accept" \notin StepsDone
          /\ \A r \in Requests : req[r].pc = "idle"
          /\ ~ENABLED Next
    /\ ~envSet => mainPc \in {"start", "aborted"}

\* C8 witness: a migration failed after an earlier one was applied.
StartupFatalWitness ==
    /\ failed = "migration"
    /\ Len(applied) >= 1
    /\ mainPc = "aborted"

\* =================================================================== C9
\* The migration history as this process run found it.
PriorHistory == SubSeq(applied, 1, Len(applied) - Len(runLog))

\* C9 (migration idempotence): the history never holds a migration twice and is always
\* a prefix of the embedded migrations in version order, so each is applied once and in
\* that order; a completed run leaves every one applied; and a run of the runner on a
\* store whose migrations are all applied applies nothing, leaves the history as it was
\* and reports no error: no migration fails, and the run ends in an error only when the
\* store itself faults under it, which is a failed startup step and not an effect of
\* running the migrations again.
MigrationIdempotence ==
    /\ Len(applied) <= Len(MIGRATIONS)
    /\ applied = SubSeq(MIGRATIONS, 1, Len(applied))
    /\ Len(runLog) <= Len(applied)
    /\ mainPc \in {"migrated", "bound", "serving"} => applied = MIGRATIONS
    /\ PriorHistory = MIGRATIONS => (runLog = << >> /\ applied = PriorHistory)
    /\ (PriorHistory = MIGRATIONS /\ failed # "history") => failed # "migration"
    /\ (PriorHistory = MIGRATIONS /\ mainPc \in {"migrated", "bound", "serving"})
          => failed = "none"

\* C9 witness: a later run of the process completed its migration step without an
\* error on a store whose migrations were all applied before, and applied nothing.
MigrationIdempotenceWitness ==
    /\ restarts >= 1
    /\ mainPc = "migrated"
    /\ failed = "none"
    /\ PriorHistory = MIGRATIONS
    /\ runLog = << >>
    /\ applied = MIGRATIONS

\* ================================================================== C10
\* The handles some unit of work holds: the handlers' and the migration block's.
Held ==
    {Unwrap(req[r].conn) : r \in {q \in Requests : IsSome(req[q].conn)}}
        \cup (IF IsSome(mainConn) THEN {Unwrap(mainConn)} ELSE {})

\* C10 (guaranteed release): the leased handles are exactly those a running unit of work
\* holds (the migration block, or a handler between its acquisition and its return),
\* never more than the pool's capacity; with no request in flight and the migration
\* block over, every handle is back in the pool.
GuaranteedRelease ==
    /\ leased = Held
    /\ leased \subseteq Handles
    /\ Cardinality(leased) <= PoolSize
    /\ \A r \in Requests : IsSome(req[r].conn) => req[r].pc \in {"interact", "respond"}
    /\ IsSome(mainConn) => mainPc = "migrate"
    /\ ((\A r \in Requests : ~InFlight(r)) /\ mainPc # "migrate") => leased = {}

\* C10 witness: a handler returned on its error path and the pool is whole again.
GuaranteedReleaseWitness ==
    /\ \E r \in Requests :
          /\ req[r].kind = "get"
          /\ req[r].pc = "done"
          /\ req[r].resp.status = INTERNAL_SERVER_ERROR
    /\ \A r \in Requests : ~InFlight(r)
    /\ leased = {}

\* ================================================================== C11
\* C11 (per-handle mutual exclusion): no two request tasks, and no request task and the
\* migration block, own the same pool handle; a handler owns one leased handle from its
\* acquisition until it returns, so for the whole of its store operation.
MutualExclusion ==
    /\ \A r, q \in Requests :
          (r # q /\ IsSome(req[r].conn) /\ IsSome(req[q].conn))
          => Unwrap(req[r].conn) # Unwrap(req[q].conn)
    /\ \A r \in Requests :
          (IsSome(req[r].conn) /\ IsSome(mainConn)) => Unwrap(req[r].conn) # Unwrap(mainConn)
    /\ \A r \in Requests :
          req[r].pc \in {"interact", "respond"}
          => (IsSome(req[r].conn) /\ Unwrap(req[r].conn) \in leased)

\* C11 witness: two requests are in their store operations at the same time, each on a
\* handle of its own, while a third waits in acquire with every handle of the pool
\* leased.
MutualExclusionWitness ==
    \E r, q, w \in Requests :
        /\ r # q /\ w # r /\ w # q
        /\ req[r].pc = "interact"
        /\ req[q].pc = "interact"
        /\ IsSome(req[r].conn) /\ IsSome(req[q].conn)
        /\ Unwrap(req[r].conn) # Unwrap(req[q].conn)
        /\ req[w].pc = "acquire"
        /\ leased = Handles

\* ================================================================== C12
\* C12 (fault mapping): in each of the three handlers a request that met a pool
\* acquisition failure or a store-level fault ends with a response, and that response is
\* the 500 carrying a textual description; it is never a success and never no response.
FaultMapping ==
    \A r \in Requests :
        (req[r].fault /\ req[r].pc \in {"done", "crashed"})
        => /\ req[r].pc = "done"
           /\ req[r].resp.status = INTERNAL_SERVER_ERROR
           /\ req[r].resp.msg # ""

\* ================================================================== C13
\* C13 (request isolation): a pool or store fault in a request never crashes the task
\* serving it, and the faulting request leaves nothing behind that another request
\* could observe: once ended it holds no handle, and the pool is consistent.
RequestIsolation ==
    \A r \in Requests :
        req[r].fault
        => /\ req[r].pc # "crashed"
           /\ (req[r].pc = "done" => ~IsSome(req[r].conn))
           /\ \A h \in leased : h \in Held

\* The same statement without its first conjunct: what a faulting request leaves behind.
FaultLeavesNoTrace ==
    \A r \in Requests :
        (req[r].fault /\ req[r].pc \in {"done", "crashed"})
        => /\ ~IsSome(req[r].conn)
           /\ \A h \in leased : h \in Held

\* ================================================================== C14
\* A POST whose body decodes under neither extractor.
Undecodable(request) ==
    request.kind = "new" /\ ~IsSome(request.json) /\ ~IsSome(request.form)

\* C14 (rejected creation payload): a POST /friends/new whose body decodes neither as
\* JSON nor as a form takes one step only, the one that accepts it: that step answers
\* it with a 4xx status and leaves the table as it was, and the handler is never
\* entered, so no insert is performed.
RejectedPayload ==
    [][ \A r \in Requests :
          (req'[r] # req[r] /\ Undecodable(req'[r]))
          => /\ req[r].pc = "idle"
             /\ req'[r].pc = "done"
             /\ req'[r].resp.status \in 400 .. 499
             /\ store' = store ]_vars

\* C14 witness: a POST that decoded under neither extractor has been answered.
RejectedPayloadWitness ==
    \E r \in Requests :
        /\ Undecodable(req[r])
        /\ req[r].pc = "done"
        /\ req[r].resp.status \in Rejections

\* ================================================================== C15
\* Every row of the table is kept, in place and unmodified, by the step.
RowsKept ==
    /\ Len(store') >= Len(store)
    /\ \A k \in DOMAIN store : store'[k] = store[k]

\* The rows each answered request has added since it was accepted: one for a POST
\* answered with its redirect, none for a GET and for any other POST.
RowsAdded ==
    \A r \in Requests :
        req[r].pc = "done"
        => Len(store) - req[r].at >=
              (IF req[r].kind = "new" /\ req[r].resp.status = SEE_OTHER THEN 1 ELSE 0)

\* C15 (frame, insert-only store): no step modifies or removes a persisted Friend, a
\* step adds at most one row, and a POST /friends/new that was answered with its
\* redirect has added one.
FrameInsertOnly == [][RowsKept /\ Len(store') <= Len(store) + 1 /\ RowsAdded']_vars

\* The part of C15 that holds: no step of a handler modifies or removes a row, and the
\* two GET handlers and a rejected or failed POST add none.
ReadOnly ==
    [][ /\ RowsKept
        /\ \A r \in Requests :
              ( /\ req'[r] # req[r]
                /\ \/ req'[r].kind \in {"get", "all"}
                   \/ req'[r].resp.status # SEE_OTHER )
              => store' = store ]_vars

\* ================================================================== C16
\* C16 (fresh reads): a GET that is hit by no fault and whose store operation ran after
\* a create carrying (name, email) had been answered with its redirect observes that
\* Friend: a list-all contains a row with that name and email, a lookup of the id the
\* redirect named is answered with one.
FreshReads ==
    \A q \in Requests : \A r \in req[q].prior :
        (req[q].pc = "done" /\ ~req[q].fault)
        => LET sent == Unwrap(req[r].json)
               body == req[q].resp.body
           IN  /\ req[q].kind = "all"
                  => \E j \in DOMAIN body : body[j].name = sent.name
                                            /\ body[j].email = sent.email
               /\ (req[q].kind = "get" /\ req[q].id = req[r].resp.loc)
                  => /\ req[q].resp.status = OK
                     /\ \E j \in DOMAIN body : body[j].name = sent.name
                                               /\ body[j].email = sent.email

\* ================================================================== C17
\* C17 (JSON precedence): a POST /friends/new that carries both a JSON and a form
\* payload and is hit by no fault has, when answered, added a row to the table, and
\* the row it added has the JSON payload's name and email.
JsonPrecedence ==
    \A r \in Requests :
        ( /\ req[r].kind = "new"
          /\ req[r].pc = "done"
          /\ ~req[r].fault
          /\ IsSome(req[r].json)
          /\ IsSome(req[r].form) )
        => /\ AddedSince(r) # {}
           /\ \A k \in AddedSince(r) : Holds(k, Unwrap(req[r].json))

\* ================================================================== C18
\* The phases of a request in the order a handler passes them: accepted, pool
\* acquisition, store operation, building the response, ended.
Rank(pc) ==
    CASE pc = "idle" -> 0
      [] pc = "acquire" -> 1
      [] pc = "interact" -> 2
      [] pc = "respond" -> 3
      [] OTHER -> 4

\* C18 (no retry, single unit of work): every step of a request takes it to a later
\* phase, so it passes its one pool acquisition and its one store operation at most
\* once each, whether they succeed or fail; it keeps the handle it was given and never
\* waits for a handle while it holds one.
SingleUnitOfWork ==
    [][ \A r \in Requests :
          /\ req'[r] # req[r] => Rank(req'[r].pc) > Rank(req[r].pc)
          /\ (IsSome(req[r].conn) /\ IsSome(req'[r].conn)) => req'[r].conn = req[r].conn
          /\ req'[r].pc = "acquire" => ~IsSome(req'[r].conn) ]_vars

\* C18 witness: a list-all whose store operation failed was answered with the 500 of
\* that failure.
SingleUnitOfWorkWitness ==
    \E r \in Requests :
        /\ req[r].kind = "all"
        /\ req[r].pc = "done"
        /\ req[r].fault
        /\ req[r].resp = internal_error("store fault")

\* ================================================================== C19
\* C19 (request completion): under fair scheduling, with terminating store operations,
\* every accepted request eventually receives a response, also when more requests are
\* in flight than the pool has handles.
RequestCompletion ==
    \A r \in Requests : (req[r].pc = "acquire") ~> (req[r].pc = "done")

\* Every accepted request eventually ends, with a response or with the panic of its
\* task: no request waits on the pool for ever.
EventuallyEnds ==
    \A r \in Requests : (req[r].pc = "acquire") ~> (req[r].pc \in {"done", "crashed"})

\* A request waits for a handle while every handle of the pool is leased.
PoolExhausted ==
    \E r \in Requests : req[r].pc = "acquire" /\ leased = Handles

====
